---------------------------- MODULE Spec2Model ----------------------------
(***************************************************************************)
(* Message dispatcher of libZilliqa (src/src/libZilliqa/Zilliqa.cpp).      *)
(*                                                                         *)
(* Producers (the network layer) call Dispatch, which pushes a heap        *)
(* allocated message into m_msgQueue, retrying while the push fails.  A    *)
(* detached thread (funcCheckMsgQueue) pops messages and adds one job per  *)
(* message to m_queuePool; a pool worker runs the job, which calls         *)
(* ProcessMessage: length check, type tag lookup in msg_handlers, Execute  *)
(* on the selected module, delete.  The destructor pops and deletes what   *)
(* is still in the queue.  RetrieveBroadcastList does the same table       *)
(* lookup for GetBroadcastList, in a table of its own.                     *)
(*                                                                         *)
(* The constructor launches the detached thread and then, in a switch on   *)
(* syncType, starts the synchronization that goes with the build (ordinary *)
(* or lookup node).  Its body is modelled statement by statement; startup  *)
(* holds the statements executed so far.                                   *)
(*                                                                         *)
(* A message is identified by its index in msgs (the order of the Dispatch *)
(* calls).  obs holds, per message, what was done to it (pushes that       *)
(* succeeded, ProcessMessage calls, bytes read, Execute calls and results, *)
(* log lines, deletes); the program does not read obs.                     *)
(*                                                                         *)
(* The model covers the lifetime of the Zilliqa object: when the           *)
(* destructor body has returned (phase = "destroyed") the members are gone *)
(* and no step of the object is modelled any more.                         *)
(***************************************************************************)
EXTENDS Naturals, Sequences, FiniteSets

\* ------------------------------------------------------------- bounds

\* Dispatch calls in one behaviour of Spec, LiveSpec and ShutdownSpec.
MaxMsgs == 3
\* Dispatch calls in one behaviour of SeqSpec.
MaxSeqMsgs == 1
\* Threads of the network layer that call Dispatch.
NumProducers == 2
\* Threads of m_queuePool.
NumWorkers == 2
\* Capacity handed to m_msgQueue (the program's value is configuration).
MSGQUEUE_SIZE == 2

Producers == 1..NumProducers
Peers == {"peerA", "peerB"}

\* ---------------------------------------------------- message layout

\* MessageOffset (common/Messages.h): byte 0 type, byte 1 instruction,
\* body from byte 2.
TYPE == 0
INST == 1
BODY == 2

\* vector::at(i): the byte at C++ offset i.
at(bytes, i) == bytes[i + 1]

\* ------------------------------------------------------ handler table

\* Executable* msg_handlers[] = {&m_pm, &m_ds, &m_n, &m_cu, &m_lookup}
\*   m_pm     peer manager          m_cu      consensus unit
\*   m_ds     directory service     m_lookup  lookup
\*   m_n      node
msg_handlers == <<"m_pm", "m_ds", "m_n", "m_cu", "m_lookup">>

\* sizeof(msg_handlers) / sizeof(Executable*)
msg_handlers_count == Len(msg_handlers)

\* msg_handlers[t] with the C++ index t
handler(t) == msg_handlers[t + 1]

\* -------------------------------------------------------------- state

VARIABLES
    msgs,        \* the messages handed to Dispatch, in call order
    prod,        \* per producer: the message it is still pushing, or 0
    m_msgQueue,  \* the inbound queue, head first
    m_queuePool, \* jobs added and not yet taken by a worker, oldest first
    workers,     \* the jobs that pool threads are running: message and place
    phase,       \* "running", "destructing", "destroyed"
    atShutdown,  \* what m_msgQueue held when the destructor was entered
    obs,         \* per message: what has been done to it
    pushOrder,   \* messages in the order their pushes succeeded
    popOrder,    \* messages in the order funcCheckMsgQueue popped them
    bcast,       \* the last RetrieveBroadcastList call, or <<>>
    executing,   \* messages whose Execute is in progress, in call order
    IS_LOOKUP_NODE,     \* the build: TRUE for a lookup node
    syncType,           \* constructor argument
    toRetrieveHistory,  \* constructor argument
    ctor,        \* statements of the constructor body still to be executed
    startup,     \* statements of the constructor body executed, in order
    m_syncType,  \* m_mediator.m_lookup->m_syncType
    m_runFromLate \* m_n.m_runFromLate

\* What the constructor's switch works on.
ctorVars == <<IS_LOOKUP_NODE, syncType, toRetrieveHistory, ctor, startup,
              m_syncType, m_runFromLate>>

\* What Dispatch, the detached thread, the pool and the destructor work on.
dispVars == <<msgs, prod, m_msgQueue, m_queuePool, workers, phase,
              atShutdown, obs, pushOrder, popOrder, bcast, executing>>

vars == <<msgs, prod, m_msgQueue, m_queuePool, workers, phase, atShutdown,
          obs, pushOrder, popOrder, bcast, executing, IS_LOOKUP_NODE,
          syncType, toRetrieveHistory, ctor, startup, m_syncType,
          m_runFromLate>>

Ids == 1..Len(msgs)

NoObs == [enq |-> 0, failed |-> 0, pm |-> 0, reads |-> {}, execs |-> <<>>,
          results |-> <<>>, log |-> <<>>, deleted |-> 0, by |-> <<>>]

\* ------------------------------------------------------ the constructor

\* SyncType (common/Constants.h), in the order the design document lists
\* the modes.
NO_SYNC == 0
NEW_SYNC == 1
NORMAL_SYNC == 2
DS_SYNC == 3
LOOKUP_SYNC == 4

\* A statement of the constructor body: what it is, and as far as they
\* apply the log level and text, the module called, the value assigned.
Stmt(op, level, text, module, val) ==
    [op |-> op, level |-> level, text |-> text, module |-> module,
     val |-> val]

LOG_GENERAL(level, text) == Stmt("LOG_GENERAL", level, text, "", 0)
Call(op, module) == Stmt(op, "", "", module, 0)
Assign(member, module, val) == Stmt(member, "", "", module, val)
StartSynchronization(module) == Call("StartSynchronization", module)

\* case SyncType::NO_SYNC marking the lookup's mode as well.
case_NO_SYNC_marked ==
    << LOG_GENERAL("INFO", "No Sync Needed"),
       Assign("m_syncType", "m_lookup", NO_SYNC),
       Call("Whitelist::Init", "") >>

\* case SyncType::NO_SYNC
case_NO_SYNC ==
    << LOG_GENERAL("INFO", "No Sync Needed"),
       Call("Whitelist::Init", "") >>

\* case SyncType::NEW_SYNC without the test of toRetrieveHistory.
case_NEW_SYNC_untested(hist) ==
    << LOG_GENERAL("INFO", "Sync as a new node"),
       Assign("m_syncType", "m_lookup", NEW_SYNC),
       Assign("m_runFromLate", "m_n", 1),
       StartSynchronization("m_n") >>

\* case SyncType::NEW_SYNC (ordinary node only)
case_NEW_SYNC(hist) ==
    IF ~hist
    THEN << LOG_GENERAL("INFO", "Sync as a new node"),
            Assign("m_syncType", "m_lookup", NEW_SYNC),
            Assign("m_runFromLate", "m_n", 1),
            StartSynchronization("m_n") >>
    ELSE << LOG_GENERAL("INFO", "Sync as a new node"),
            LOG_GENERAL("WARNING",
                "Error: Sync for new node shouldn't retrieve history") >>

\* case SyncType::NORMAL_SYNC starting the synchronization before the
\* lookup's mode is marked.
case_NORMAL_SYNC_unmarked ==
    << LOG_GENERAL("INFO", "Sync as a normal node"),
       Assign("m_runFromLate", "m_n", 1),
       StartSynchronization("m_n"),
       Assign("m_syncType", "m_lookup", NORMAL_SYNC) >>

\* case SyncType::NORMAL_SYNC (ordinary node only)
case_NORMAL_SYNC ==
    << LOG_GENERAL("INFO", "Sync as a normal node"),
       Assign("m_syncType", "m_lookup", NORMAL_SYNC),
       Assign("m_runFromLate", "m_n", 1),
       StartSynchronization("m_n") >>

\* case SyncType::DS_SYNC starting the node module as the other cases do.
case_DS_SYNC_node ==
    << LOG_GENERAL("INFO", "Sync as a ds node"),
       Assign("m_syncType", "m_lookup", DS_SYNC),
       StartSynchronization("m_n") >>

\* case SyncType::DS_SYNC (ordinary node only)
case_DS_SYNC ==
    << LOG_GENERAL("INFO", "Sync as a ds node"),
       Assign("m_syncType", "m_lookup", DS_SYNC),
       StartSynchronization("m_ds") >>

\* case SyncType::LOOKUP_SYNC starting the synchronization twice.
case_LOOKUP_SYNC_twice ==
    << LOG_GENERAL("INFO", "Sync as a lookup node"),
       Assign("m_syncType", "m_lookup", LOOKUP_SYNC),
       StartSynchronization("m_lookup"),
       StartSynchronization("m_lookup") >>

\* case SyncType::LOOKUP_SYNC (lookup node only)
case_LOOKUP_SYNC ==
    << LOG_GENERAL("INFO", "Sync as a lookup node"),
       Assign("m_syncType", "m_lookup", LOOKUP_SYNC),
       StartSynchronization("m_lookup") >>

\* default:
case_default ==
    << LOG_GENERAL("WARNING", "Invalid Sync Type") >>

\* The switch with every case compiled in for both builds.
switch_every_case(lookup, type, hist) ==
    CASE type = NO_SYNC -> case_NO_SYNC
      [] type = NEW_SYNC -> case_NEW_SYNC(hist)
      [] type = NORMAL_SYNC -> case_NORMAL_SYNC
      [] type = DS_SYNC -> case_DS_SYNC
      [] type = LOOKUP_SYNC -> case_LOOKUP_SYNC
      [] OTHER -> case_default

\* switch (syncType): the statements of the case taken.  The build decides
\* which cases exist (#ifndef IS_LOOKUP_NODE ... #else ... #endif).
switch(lookup, type, hist) ==
    CASE type = NO_SYNC -> case_NO_SYNC
      [] ~lookup /\ type = NEW_SYNC -> case_NEW_SYNC(hist)
      [] ~lookup /\ type = NORMAL_SYNC -> case_NORMAL_SYNC
      [] ~lookup /\ type = DS_SYNC -> case_DS_SYNC
      [] lookup /\ type = LOOKUP_SYNC -> case_LOOKUP_SYNC
      [] OTHER -> case_default

\* The statements after the switch; listening is what
\* m_server.StartListening() returns on a lookup node.
AfterSwitch(lookup, listening) ==
    IF ~lookup
    THEN << LOG_GENERAL("INFO", "I am a normal node.") >>
    ELSE << LOG_GENERAL("INFO", "I am a lookup node."),
            Call("StartListening", "m_server"),
            IF listening
            THEN LOG_GENERAL("INFO", "API Server started successfully")
            ELSE LOG_GENERAL("WARNING", "API Server couldn't start") >>

\* The constructor body, statement by statement.
ConstructorBody(lookup, type, hist, listening) ==
    << Call("DetachedFunction", "funcCheckMsgQueue"),
       Call("RegisterColleagues", "m_mediator"),
       Call("Install", "m_n"),
       Call("LogSelfNodeInfo", ""),
       Call("SetSelfPeer", "P2PComm") >>
        \o switch(lookup, type, hist)
        \o AfterSwitch(lookup, listening)

\* The detached thread has been launched.
Launched == \A i \in DOMAIN ctor : ctor[i].op # "DetachedFunction"

\* The constructor has returned.
Constructed == ctor = <<>>

\* The next statement of the constructor body is executed.
Constructor ==
    LET stmt == Head(ctor) IN
    /\ ctor # <<>>
    /\ ctor' = Tail(ctor)
    /\ startup' = Append(startup, stmt)
    /\ m_syncType' = IF stmt.op = "m_syncType" THEN stmt.val ELSE m_syncType
    /\ m_runFromLate' =
            IF stmt.op = "m_runFromLate" THEN stmt.val = 1 ELSE m_runFromLate
    /\ UNCHANGED <<IS_LOOKUP_NODE, syncType, toRetrieveHistory, dispVars>>

\* Values of syncType tried: the enumeration, the first value past it and
\* a large one.
SyncTypes == {NO_SYNC, NEW_SYNC, NORMAL_SYNC, DS_SYNC, LOOKUP_SYNC, 5, 4095}

\* No message, no call yet.
Idle ==
    /\ msgs = <<>>
    /\ prod = [p \in Producers |-> 0]
    /\ m_msgQueue = <<>>
    /\ m_queuePool = <<>>
    /\ workers = {}
    /\ phase = "running"
    /\ atShutdown = <<>>
    /\ obs = <<>>
    /\ pushOrder = <<>>
    /\ popOrder = <<>>
    /\ bcast = <<>>
    /\ executing = <<>>

\* The members are initialised and the constructor body is entered, for
\* either build and any arguments.  Before the switch the lookup's mode is
\* NO_SYNC and the node's m_runFromLate is false.
StartInit ==
    /\ Idle
    /\ IS_LOOKUP_NODE \in BOOLEAN
    /\ syncType \in SyncTypes
    /\ toRetrieveHistory \in BOOLEAN
    /\ \E listening \in (IF IS_LOOKUP_NODE THEN BOOLEAN ELSE {TRUE}) :
            ctor = ConstructorBody(IS_LOOKUP_NODE, syncType,
                                   toRetrieveHistory, listening)
    /\ startup = <<>>
    /\ m_syncType = NO_SYNC
    /\ m_runFromLate = FALSE

\* An ordinary node constructed with NO_SYNC: the constructor has returned.
Init ==
    /\ Idle
    /\ IS_LOOKUP_NODE = FALSE
    /\ syncType = NO_SYNC
    /\ toRetrieveHistory = FALSE
    /\ ctor = <<>>
    /\ startup = ConstructorBody(FALSE, NO_SYNC, FALSE, TRUE)
    /\ m_syncType = NO_SYNC
    /\ m_runFromLate = FALSE

\* ------------------------------------------------------ the queue

\* The type of m_msgQueue is declared in Zilliqa.h.  It is taken to be what
\* the design document describes: a bounded queue, first in first out,
\* whose push and pop are atomic.

\* m_msgQueue.push(message): fails, changing nothing, when the queue holds
\* MSGQUEUE_SIZE messages.
push(q, m) ==
    IF Len(q) < MSGQUEUE_SIZE
    THEN [ok |-> TRUE, q |-> Append(q, m)]
    ELSE [ok |-> FALSE, q |-> q]

\* m_msgQueue.pop(message): fails on the empty queue, else takes the head.
pop(q) ==
    IF q = <<>>
    THEN [ok |-> FALSE, q |-> q, message |-> 0]
    ELSE [ok |-> TRUE, q |-> Tail(q), message |-> Head(q)]

\* ------------------------------------------------------ the worker pool

\* m_queuePool is a ThreadPool (libUtils), taken to be what the design
\* document describes: a bounded number of threads running the jobs.

\* m_queuePool.AddJob(job): the job waits behind the jobs added before it.
AddJob(pool, message) == Append(pool, message)

\* seq with every x taken out.
Without(seq, x) ==
    LET Keep(e) == e # x IN SelectSeq(seq, Keep)

\* delete message (by ProcessMessage or by the destructor)
Delete(ob, id, who) ==
    [ob EXCEPT ![id].deleted = @ + 1, ![id].by = Append(@, who)]

\* ------------------------------------------------------------ Dispatch

\* Producer p calls Dispatch(message).
Dispatch(p, message, limit) ==
    /\ phase # "destroyed"
    /\ Constructed
    /\ prod[p] = 0
    /\ Len(msgs) < limit
    /\ msgs' = Append(msgs, [bytes |-> message.bytes, from |-> message.from,
                             producer |-> p])
    /\ obs' = Append(obs, NoObs)
    /\ prod' = [prod EXCEPT ![p] = Len(msgs) + 1]
    /\ UNCHANGED <<m_msgQueue, m_queuePool, workers, phase, atShutdown,
                   pushOrder, popOrder, bcast>>
    /\ UNCHANGED <<executing, ctorVars>>

\* Dispatch with a full queue making room by dropping the oldest message.
Dispatch_loop_overwrite(p) ==
    LET id == prod[p]
        r == push(m_msgQueue, id)
    IN
    /\ phase # "destroyed"
    /\ id # 0
    /\ prod' = [prod EXCEPT ![p] = 0]
    /\ IF r.ok
       THEN /\ m_msgQueue' = r.q
            /\ obs' = [obs EXCEPT ![id].enq = @ + 1]
       ELSE /\ m_msgQueue' = Append(Tail(m_msgQueue), id)
            /\ obs' = [obs EXCEPT ![id].enq = @ + 1, ![id].failed = 1]
    /\ pushOrder' = Append(pushOrder, id)
    /\ UNCHANGED <<msgs, m_queuePool, workers, phase, atShutdown, popOrder,
                   bcast>>
    /\ UNCHANGED <<executing, ctorVars>>

\* Dispatch pushing once and returning whether or not the push succeeded.
Dispatch_loop_giveup(p) ==
    LET id == prod[p]
        r == push(m_msgQueue, id)
    IN
    /\ phase # "destroyed"
    /\ id # 0
    /\ m_msgQueue' = r.q
    /\ prod' = [prod EXCEPT ![p] = 0]
    /\ IF r.ok
       THEN /\ obs' = [obs EXCEPT ![id].enq = @ + 1]
            /\ pushOrder' = Append(pushOrder, id)
       ELSE /\ obs' = [obs EXCEPT ![id].failed = 1]
            /\ UNCHANGED pushOrder
    /\ UNCHANGED <<msgs, m_queuePool, workers, phase, atShutdown, popOrder,
                   bcast>>
    /\ UNCHANGED <<executing, ctorVars>>

\* Dispatch putting its message into the queue whether or not there is
\* room.
Dispatch_loop_force(p) ==
    LET id == prod[p] IN
    /\ phase # "destroyed"
    /\ id # 0
    /\ m_msgQueue' = Append(m_msgQueue, id)
    /\ prod' = [prod EXCEPT ![p] = 0]
    /\ obs' = [obs EXCEPT ![id].enq = @ + 1]
    /\ pushOrder' = Append(pushOrder, id)
    /\ UNCHANGED <<msgs, m_queuePool, workers, phase, atShutdown, popOrder,
                   bcast>>
    /\ UNCHANGED <<executing, ctorVars>>

\* One iteration of  while (!m_msgQueue.push(message)) {}  by producer p,
\* inside Dispatch: Dispatch returns when the push succeeded, else it goes
\* round again.
Dispatch_loop(p) ==
    LET id == prod[p]
        r == push(m_msgQueue, id)
    IN
    /\ phase # "destroyed"
    /\ id # 0
    /\ m_msgQueue' = r.q
    /\ IF r.ok
       THEN /\ prod' = [prod EXCEPT ![p] = 0]
            /\ obs' = [obs EXCEPT ![id].enq = @ + 1]
            /\ pushOrder' = Append(pushOrder, id)
       ELSE /\ obs' = [obs EXCEPT ![id].failed = 1]
            /\ UNCHANGED <<prod, pushOrder>>
    /\ UNCHANGED <<msgs, m_queuePool, workers, phase, atShutdown, popOrder,
                   bcast>>
    /\ UNCHANGED <<executing, ctorVars>>

\* --------------------------------------------------- funcCheckMsgQueue

\* The detached thread taking the newest message instead of the oldest.
funcCheckMsgQueue_newest ==
    LET n == Len(m_msgQueue) IN
    /\ phase # "destroyed"
    /\ Launched
    /\ n > 0
    /\ m_msgQueue' = SubSeq(m_msgQueue, 1, n - 1)
    /\ m_queuePool' = AddJob(m_queuePool, m_msgQueue[n])
    /\ popOrder' = Append(popOrder, m_msgQueue[n])
    /\ UNCHANGED <<msgs, prod, workers, phase, atShutdown, obs, pushOrder,
                   bcast>>
    /\ UNCHANGED <<executing, ctorVars>>

\* The detached thread waiting for the jobs it added to finish before it
\* pops again.
funcCheckMsgQueue_waiting ==
    LET r == pop(m_msgQueue) IN
    /\ phase # "destroyed"
    /\ Launched
    /\ m_queuePool = <<>>
    /\ workers = {}
    /\ r.ok
    /\ m_msgQueue' = r.q
    /\ m_queuePool' = AddJob(m_queuePool, r.message)
    /\ popOrder' = Append(popOrder, r.message)
    /\ UNCHANGED <<msgs, prod, workers, phase, atShutdown, obs, pushOrder,
                   bcast>>
    /\ UNCHANGED <<executing, ctorVars>>

\* One iteration of  while (m_msgQueue.pop(message)) AddJob(...)  in the
\* detached thread.  A failed pop changes nothing and is not a step.
funcCheckMsgQueue ==
    LET r == pop(m_msgQueue) IN
    /\ phase # "destroyed"
    /\ Launched
    /\ r.ok
    /\ m_msgQueue' = r.q
    /\ m_queuePool' = AddJob(m_queuePool, r.message)
    /\ popOrder' = Append(popOrder, r.message)
    /\ UNCHANGED <<msgs, prod, workers, phase, atShutdown, obs, pushOrder,
                   bcast>>
    /\ UNCHANGED <<executing, ctorVars>>

\* The pool running one job at a time.
WorkerTakeJob_single ==
    /\ phase # "destroyed"
    /\ workers = {}
    /\ m_queuePool # <<>>
    /\ workers' = workers \cup {[msg |-> Head(m_queuePool), pc |-> "job"]}
    /\ m_queuePool' = Tail(m_queuePool)
    /\ UNCHANGED <<msgs, prod, m_msgQueue, phase, atShutdown, obs, pushOrder,
                   popOrder, bcast>>
    /\ UNCHANGED <<executing, ctorVars>>

\* An idle pool thread takes the oldest job; the job holds its message.
\* Which thread it is makes no difference: workers keeps the running jobs.
WorkerTakeJob ==
    /\ phase # "destroyed"
    /\ Cardinality(workers) < NumWorkers
    /\ m_queuePool # <<>>
    /\ workers' = workers \cup {[msg |-> Head(m_queuePool), pc |-> "job"]}
    /\ m_queuePool' = Tail(m_queuePool)
    /\ UNCHANGED <<msgs, prod, m_msgQueue, phase, atShutdown, obs, pushOrder,
                   popOrder, bcast>>
    /\ UNCHANGED <<executing, ctorVars>>

\* ------------------------------------------------------ ProcessMessage

\* The short branch reading the type byte for a log line.
ProcessMessage_short_peek(ob, id) ==
    Delete([ob EXCEPT ![id].reads = @ \cup {TYPE}], id, "ProcessMessage")

\* message->first.size() < MessageOffset::BODY: nothing but the delete.
ProcessMessage_short(ob, id) ==
    Delete(ob, id, "ProcessMessage")

\* The unknown-type branch without its LOG_GENERAL.
ProcessMessage_unknown_silent(ob, id, msg_type) ==
    Delete(ob, id, "ProcessMessage")

\* msg_type >= msg_handlers_count: the warning, then the delete.
ProcessMessage_unknown(ob, id, msg_type) ==
    Delete([ob EXCEPT ![id].log =
                Append(@, [level |-> "WARNING",
                           text |-> "Unknown message type",
                           arg |-> msg_type])],
           id, "ProcessMessage")

\* Execute handed the offset of the type tag instead of the one after it.
ProcessMessage_call_type(message, msg_type) ==
    [module |-> handler(msg_type), bytes |-> message.bytes,
     offset |-> TYPE, from |-> message.from]

\* msg_handlers[msg_type]->Execute(message->first, MessageOffset::INST,
\*                                 message->second)
ProcessMessage_call(message, msg_type) ==
    [module |-> handler(msg_type), bytes |-> message.bytes,
     offset |-> INST, from |-> message.from]

\* The failure branch deleting the message before the common delete.
ProcessMessage_result_twice(ob, id, result) ==
    LET rec == [ob EXCEPT ![id].results = Append(@, result)] IN
    IF result
    THEN Delete(rec, id, "ProcessMessage")
    ELSE Delete(Delete(rec, id, "ProcessMessage"), id, "ProcessMessage")

\* The failure branch returning before the delete.
ProcessMessage_result_keep(ob, id, result) ==
    LET rec == [ob EXCEPT ![id].results = Append(@, result)] IN
    IF result THEN Delete(rec, id, "ProcessMessage") ELSE rec

\* After Execute returned:  if (result == false) { }  and the delete.
ProcessMessage_result(ob, id, result) ==
    Delete([ob EXCEPT ![id].results = Append(@, result)],
           id, "ProcessMessage")

\* The job for message id calls ProcessMessage(message): up to the return
\* of the function, or up to the call of Execute.
ProcessMessage(id) ==
    LET message == msgs[id]
        ob == [obs EXCEPT ![id].pm = @ + 1]
        job == [msg |-> id, pc |-> "job"]
    IN
    /\ phase # "destroyed"
    /\ job \in workers
    /\ IF Len(message.bytes) >= BODY
       THEN LET msg_type == at(message.bytes, TYPE)
                rd == [ob EXCEPT ![id].reads = @ \cup {TYPE}]
            IN
            IF msg_type < msg_handlers_count
            THEN /\ obs' = [rd EXCEPT ![id].execs =
                            Append(@, ProcessMessage_call(message, msg_type))]
                 /\ workers' = (workers \ {job})
                                    \cup {[msg |-> id, pc |-> "Execute"]}
                 /\ executing' = Append(executing, id)
            ELSE /\ obs' = ProcessMessage_unknown(rd, id, msg_type)
                 /\ workers' = workers \ {job}
                 /\ UNCHANGED executing
       ELSE /\ obs' = ProcessMessage_short(ob, id)
            /\ workers' = workers \ {job}
            /\ UNCHANGED executing
    /\ UNCHANGED <<msgs, prod, m_msgQueue, m_queuePool, phase, atShutdown,
                   pushOrder, popOrder, bcast>>
    /\ UNCHANGED ctorVars

\* The module's Execute returns result to ProcessMessage, which returns.
Execute_return(id, result) ==
    /\ phase # "destroyed"
    /\ [msg |-> id, pc |-> "Execute"] \in workers
    /\ obs' = ProcessMessage_result(obs, id, result)
    /\ workers' = workers \ {[msg |-> id, pc |-> "Execute"]}
    /\ executing' = Without(executing, id)
    /\ UNCHANGED <<msgs, prod, m_msgQueue, m_queuePool, phase, atShutdown,
                   pushOrder, popOrder, bcast>>
    /\ UNCHANGED ctorVars

\* ------------------------------------------------------------ ~Zilliqa

\* The destructor is entered.  Nothing tells the detached thread or the
\* callers of Dispatch.
Destructor_begin ==
    /\ phase = "running"
    /\ phase' = "destructing"
    /\ atShutdown' = m_msgQueue
    /\ UNCHANGED <<msgs, prod, m_msgQueue, m_queuePool, workers, obs,
                   pushOrder, popOrder, bcast>>
    /\ UNCHANGED <<executing, ctorVars>>

\* One iteration of  while (m_msgQueue.pop(message)) delete message;  the
\* failed pop ends the destructor body.
Destructor ==
    LET r == pop(m_msgQueue) IN
    /\ phase = "destructing"
    /\ m_msgQueue' = r.q
    /\ IF r.ok
       THEN /\ obs' = Delete(obs, r.message, "~Zilliqa")
            /\ UNCHANGED phase
       ELSE /\ phase' = "destroyed"
            /\ UNCHANGED obs
    /\ UNCHANGED <<msgs, prod, m_queuePool, workers, atShutdown, pushOrder,
                   popOrder, bcast>>
    /\ UNCHANGED <<executing, ctorVars>>

\* ------------------------------------------------ RetrieveBroadcastList

\* A module's GetBroadcastList(ins_type, from): the module's own policy,
\* outside this file; here a list that names the module asked.
GetBroadcastList(module, ins_type, from) ==
    <<[peer |-> from, selectedBy |-> module, ins |-> ins_type]>>

\* The table with the node and the directory service in each other's
\* place.
msg_handlers_Broadcastable_swapped ==
    <<"m_pm", "m_n", "m_ds", "m_cu", "m_lookup">>

\* Broadcastable* msg_handlers[] = {&m_pm, &m_ds, &m_n, &m_cu, &m_lookup}:
\* the table RetrieveBroadcastList builds for itself.
msg_handlers_Broadcastable ==
    <<"m_pm", "m_ds", "m_n", "m_cu", "m_lookup">>

\* sizeof(msg_handlers) / sizeof(Broadcastable*)
msg_handlers_Broadcastable_count == Len(msg_handlers_Broadcastable)

\* RetrieveBroadcastList(msg_type, ins_type, from); bcast keeps the call,
\* the module asked, the log lines and the list returned.
RetrieveBroadcastList(msg_type, ins_type, from) ==
    /\ phase # "destroyed"
    /\ bcast' =
        IF msg_type < msg_handlers_Broadcastable_count
        THEN LET module == msg_handlers_Broadcastable[msg_type + 1] IN
             [msg_type |-> msg_type, ins_type |-> ins_type, from |-> from,
              asked |-> <<module>>, log |-> <<>>,
              ret |-> GetBroadcastList(module, ins_type, from)]
        ELSE [msg_type |-> msg_type, ins_type |-> ins_type, from |-> from,
              asked |-> <<>>,
              log |-> <<[level |-> "WARNING",
                         text |-> "Unknown message type",
                         arg |-> msg_type]>>,
              ret |-> <<>>]
    /\ UNCHANGED <<msgs, prod, m_msgQueue, m_queuePool, workers, phase,
                   atShutdown, obs, pushOrder, popOrder>>
    /\ UNCHANGED <<executing, ctorVars>>

\* ------------------------------------------------------------- inputs

\* Type tags tried: every index of msg_handlers, the first one past it
\* and the largest byte.
Tags == {0, 1, 2, 3, 4, 5, 255}

\* Messages of Spec and ShutdownSpec: one too short, one with a known tag.
Inputs ==
    { [bytes |-> <<1>>, from |-> "peerA"],
      [bytes |-> <<2, 1, 9>>, from |-> "peerB"] }

\* Messages of LiveSpec: those, and one with an unknown tag.
LiveInputs ==
    Inputs \cup { [bytes |-> <<5, 0>>, from |-> "peerB"] }

\* Messages of SeqSpec: no byte, the tag alone, the header alone with
\* either instruction, the header and a body byte; every tag, both peers.
SeqInputs ==
    {[bytes |-> b, from |-> f] :
        b \in {<<>>} \cup {<<t>> : t \in Tags}
                \cup {<<t, ins>> : t \in Tags, ins \in {0, 1}}
                \cup {<<t, 1, 9>> : t \in Tags},
        f \in Peers}

\* ----------------------------------------------------- specifications

\* The steps of the running dispatcher after a message was handed to
\* Dispatch: the push loop, the detached thread, the pool.
Run ==
    \/ \E p \in Producers : Dispatch_loop(p)
    \/ funcCheckMsgQueue
    \/ WorkerTakeJob
    \/ \E id \in Ids : ProcessMessage(id)
    \/ \E id \in Ids, result \in BOOLEAN : Execute_return(id, result)

\* The running dispatcher with concurrent producers.
Next ==
    \/ \E p \in Producers, message \in Inputs : Dispatch(p, message, MaxMsgs)
    \/ Run

Spec == Init /\ [][Next]_vars

\* The dispatcher and its destructor, which may be entered at any time.
ShutdownNext ==
    \/ Next
    \/ Destructor_begin
    \/ Destructor

ShutdownSpec == Init /\ [][ShutdownNext]_vars

\* One message at a time, from every input, and the broadcast lookup.
AllDeleted == \A id \in Ids : obs[id].deleted > 0

SeqNext ==
    \/ \E message \in SeqInputs :
            AllDeleted /\ Dispatch(1, message, MaxSeqMsgs)
    \/ Run
    \/ \E t \in Tags, ins \in {0, 1}, from \in Peers :
            RetrieveBroadcastList(t, ins, from)

SeqSpec == Init /\ [][SeqNext]_vars

\* Messages of PoolSpec: two with known tags, for the node and for the
\* lookup.
PoolInputs ==
    { [bytes |-> <<2, 1, 9>>, from |-> "peerB"],
      [bytes |-> <<4, 0>>, from |-> "peerA"] }

\* One producer dispatching messages that all reach Execute.
PoolNext ==
    \/ \E message \in PoolInputs : Dispatch(1, message, MaxMsgs)
    \/ Run

PoolSpec == Init /\ [][PoolNext]_vars

\* The constructor from its first statement, for either build and any
\* arguments, and the dispatcher it leaves running.
StartNext ==
    \/ Constructor
    \/ \E message \in Inputs : Dispatch(1, message, MaxSeqMsgs)
    \/ Run

StartSpec == StartInit /\ [][StartNext]_vars

\* The running dispatcher with every thread scheduled again and again and
\* every Execute returning.  No fairness is asked of new Dispatch calls.
Fairness ==
    /\ \A p \in Producers : WF_vars(Dispatch_loop(p))
    /\ WF_vars(funcCheckMsgQueue)
    /\ WF_vars(WorkerTakeJob)
    /\ \A id \in 1..MaxMsgs : WF_vars(ProcessMessage(id))
    /\ \A id \in 1..MaxMsgs :
            WF_vars(\E result \in BOOLEAN : Execute_return(id, result))

LiveNext ==
    \/ \E p \in Producers, message \in LiveInputs :
            Dispatch(p, message, MaxMsgs)
    \/ Run

LiveSpec == Init /\ [][LiveNext]_vars /\ Fairness

\* ------------------------------------------------------------ helpers

Range(seq) == {seq[i] : i \in DOMAIN seq}

Count(seq, x) == Cardinality({i \in DOMAIN seq : seq[i] = x})

\* Producers still inside Dispatch(id).
Pushing(id) == {p \in Producers : prod[p] = id}

\* Running jobs that hold id.
Working(id) == {job \in workers : job.msg = id}

\* The places that hold message id: a producer retrying the push, the
\* queue, a job (waiting or running), and one for each delete.
Owners(id) ==
    Cardinality(Pushing(id)) + Count(m_msgQueue, id) + Count(m_queuePool, id)
        + Cardinality(Working(id)) + obs[id].deleted

\* Nothing is on its way: no producer inside Dispatch, queue and pool
\* empty, no job running.
Drained ==
    /\ \A p \in Producers : prod[p] = 0
    /\ m_msgQueue = <<>>
    /\ m_queuePool = <<>>
    /\ workers = {}

Executed(id) == Len(obs[id].execs) = 1 /\ Len(obs[id].results) = 1
Discarded(id) == obs[id].execs = <<>> /\ obs[id].results = <<>>

\* ------------------------------------------------------------- claims

\* C1: every message handed to Dispatch has exactly one owner among a
\* producer still retrying the push, the queue, one job, released; it is
\* passed to ProcessMessage at most once, Execute is invoked on it at most
\* once, it is deleted at most once; and once everything is drained every
\* message has been deleted exactly once, each either executed or
\* discarded.
C1_SingleOwner ==
    /\ \A id \in Ids :
        /\ Owners(id) = 1
        /\ obs[id].pm <= 1
        /\ Len(obs[id].execs) <= 1
        /\ obs[id].deleted <= 1
    /\ Drained =>
        \A id \in Ids :
            /\ obs[id].deleted = 1
            /\ Executed(id) \/ Discarded(id)

\* Two messages went through and the dispatcher is drained: one was
\* executed, one was discarded by ProcessMessage, one had to retry its push.
C1_Witness ==
    /\ Drained
    /\ Len(msgs) >= 2
    /\ \A id \in Ids : obs[id].deleted = 1 /\ obs[id].pm = 1
    /\ \E id \in Ids : Executed(id)
    /\ \E id \in Ids : Discarded(id)
    /\ \E id \in Ids : obs[id].failed = 1

\* C2: a Dispatch call made while the queue is full never drops its
\* message and never alters the queue: the failed push leaves the queue as
\* it was with the message still in the hands of the caller, and whenever
\* Dispatch has returned the message has been enqueued exactly once (and
\* not at all before).
C2_Returned ==
    \A id \in Ids :
        obs[id].enq = (IF Pushing(id) = {} THEN 1 ELSE 0)

C2_FailedPush ==
    \A id \in Ids :
        (obs[id].failed = 0 /\ obs'[id].failed = 1) =>
            /\ Len(m_msgQueue) = MSGQUEUE_SIZE
            /\ m_msgQueue' = m_msgQueue
            /\ Pushing(id) # {}
            /\ Pushing(id)' = Pushing(id)
            /\ obs'[id].enq = 0

C2_Backpressure == [](C2_Returned) /\ [][C2_FailedPush]_vars

\* A Dispatch call whose first push failed has returned, its message
\* enqueued once.
C2_Witness ==
    \E id \in Ids :
        obs[id].failed = 1 /\ Pushing(id) = {} /\ obs[id].enq = 1

Short(id) == Len(msgs[id].bytes) < BODY

\* The type tag of a message that has one.
TagOf(id) == at(msgs[id].bytes, TYPE)

Unknown(id) == ~Short(id) /\ TagOf(id) >= msg_handlers_count
Known(id) == ~Short(id) /\ TagOf(id) < msg_handlers_count

\* Message id went all the way: pushed once, popped by the detached thread,
\* passed to ProcessMessage once, executed to the end or discarded, deleted.
Done(id) ==
    /\ id \in Ids
    /\ obs[id].enq = 1
    /\ id \in Range(popOrder)
    /\ obs[id].pm = 1
    /\ obs[id].deleted = 1
    /\ IF Known(id) THEN Executed(id) ELSE Discarded(id)

\* C3: with the detached thread, the pool threads and the producers
\* scheduled fairly (and every Execute returning), every message handed to
\* Dispatch is in the end enqueued, dequeued and executed or discarded,
\* whatever was dispatched before it, and every Dispatch call returns.
C3_EveryMessageDone ==
    /\ \A id \in 1..MaxMsgs : (id \in Ids) ~> Done(id)
    /\ \A p \in Producers : (prod[p] # 0) ~> (prod[p] = 0)

\* A known-tag message dispatched after a too-short or unknown-tag one,
\* and into a full queue, was executed.
C3_Witness ==
    \E id \in Ids :
        /\ id > 1
        /\ Short(id - 1) \/ Unknown(id - 1)
        /\ Known(id)
        /\ obs[id].failed = 1
        /\ Done(id)
        /\ Done(id - 1)

\* ProcessMessage has been called on message id.  (It returns in the same
\* step unless it calls Execute.)
Processed(id) == obs[id].pm >= 1

IsWarning(line) == line.level = "WARNING"

\* C4: on a message shorter than the header ProcessMessage reads no byte
\* of the buffer, invokes no Execute, and deletes the message.
C4_ShortDiscarded ==
    \A id \in Ids :
        (Short(id) /\ Processed(id)) =>
            /\ obs[id].reads = {}
            /\ obs[id].execs = <<>>
            /\ obs[id].results = <<>>
            /\ obs[id].deleted = 1
            /\ obs[id].by = <<"ProcessMessage">>

\* ProcessMessage ran on a 1-byte message.
C4_Witness ==
    \E id \in Ids :
        Len(msgs[id].bytes) = 1 /\ Processed(id) /\ obs[id].deleted = 1

\* C5: whenever ProcessMessage discards a message shorter than the header,
\* a warning is logged for it.
C5_ShortLogged ==
    \A id \in Ids :
        (Short(id) /\ Processed(id)) =>
            \E i \in DOMAIN obs[id].log : IsWarning(obs[id].log[i])

UnknownTypeWarning(t) ==
    [level |-> "WARNING", text |-> "Unknown message type", arg |-> t]

\* C6: for a type tag of 5 (the number of handlers) or more, ProcessMessage
\* on a message of at least header size invokes no handler, logs the
\* unknown-type warning and deletes the message; RetrieveBroadcastList
\* with such a tag asks no module, logs the warning and returns the empty
\* list.
C6_UnknownTag ==
    /\ msg_handlers_count = 5
    /\ \A id \in Ids :
        (~Short(id) /\ TagOf(id) >= 5 /\ Processed(id)) =>
            /\ obs[id].execs = <<>>
            /\ obs[id].results = <<>>
            /\ obs[id].log = <<UnknownTypeWarning(TagOf(id))>>
            /\ obs[id].deleted = 1
            /\ obs[id].by = <<"ProcessMessage">>
    /\ (bcast # <<>> /\ bcast.msg_type >= 5) =>
            /\ bcast.asked = <<>>
            /\ bcast.log = <<UnknownTypeWarning(bcast.msg_type)>>
            /\ bcast.ret = <<>>

\* A message with tag 5 has been processed and the broadcast list for tag
\* 255 has been asked for.
C6_Witness ==
    /\ \E id \in Ids : ~Short(id) /\ TagOf(id) = 5 /\ Processed(id)
    /\ bcast # <<>>
    /\ bcast.msg_type = 255

\* The table of the claim: peer manager, directory service, node,
\* consensus unit, lookup, at the tags 0 to 4.
ModuleOfTag(t) ==
    CASE t = 0 -> "m_pm"
      [] t = 1 -> "m_ds"
      [] t = 2 -> "m_n"
      [] t = 3 -> "m_cu"
      [] t = 4 -> "m_lookup"

\* C7: for a message of at least header size with type tag t below 5,
\* ProcessMessage invokes Execute exactly once, on the module at index t of
\* [peer manager, directory service, node, consensus unit, lookup] and
\* on no other, with the bytes of the message, the offset just after the
\* type tag, and the sender of the message.
C7_Routing ==
    \A id \in Ids :
        (~Short(id) /\ TagOf(id) < 5 /\ Processed(id)) =>
            obs[id].execs =
                <<[module |-> ModuleOfTag(TagOf(id)),
                   bytes |-> msgs[id].bytes,
                   offset |-> 1,
                   from |-> msgs[id].from]>>

\* A message with tag 3 from peerB has been handed to the consensus unit.
C7_Witness ==
    \E id \in Ids :
        /\ ~Short(id)
        /\ TagOf(id) = 3
        /\ msgs[id].from = "peerB"
        /\ Len(obs[id].execs) = 1
        /\ obs[id].execs[1].module = "m_cu"

\* Message id is nowhere in the dispatcher any more.
Gone(id) ==
    /\ Pushing(id) = {}
    /\ Count(m_msgQueue, id) = 0
    /\ Count(m_queuePool, id) = 0
    /\ Working(id) = {}

\* C8: when Execute has returned false there is no retry and no rerouting:
\* Execute was invoked once on the message and is not invoked again, the
\* message is not enqueued again, and it has been deleted, exactly as
\* when Execute returns true.
C8_NoRetry ==
    \A id \in Ids :
        obs[id].results # <<>> =>
            /\ Len(obs[id].results) = 1
            /\ Len(obs[id].execs) = 1
            /\ obs[id].pm = 1
            /\ obs[id].enq = 1
            /\ Gone(id)
            /\ obs[id].deleted = 1
            /\ obs[id].by = <<"ProcessMessage">>

\* Execute returned false on one message, and later steps have been taken:
\* another message has been dispatched after it and executed.
C8_Witness ==
    \E id \in Ids :
        /\ obs[id].results = <<FALSE>>
        /\ \E other \in Ids : other > id /\ obs[other].results = <<TRUE>>

\* The place of x in a sequence without repetitions that holds it.
Pos(seq, x) == CHOOSE i \in DOMAIN seq : seq[i] = x

\* a is made of elements of b, in the order they have in b.
InOrderOf(a, b) ==
    /\ Range(a) \subseteq Range(b)
    /\ \A i, j \in DOMAIN a : i < j => Pos(b, a[i]) < Pos(b, a[j])

\* The jobs in the order they were added: those taken by a worker are the
\* oldest, the pool holds the rest.
JobsAdded(order) ==
    /\ Len(order) >= Len(m_queuePool)
    /\ m_queuePool = SubSeq(order, Len(order) - Len(m_queuePool) + 1,
                            Len(order))

\* C9: the queue is FIFO under concurrent producers.  The detached thread
\* pops messages in the order their pushes succeeded (while it is the only
\* one that pops, what it has popped followed by what the queue holds is
\* exactly the order of the pushes), jobs are added in that order, and the
\* messages of one producer are popped in the order that producer
\* dispatched them.
C9_Fifo ==
    /\ InOrderOf(popOrder, pushOrder)
    /\ InOrderOf(m_msgQueue, pushOrder)
    /\ phase = "running" => pushOrder = popOrder \o m_msgQueue
    /\ JobsAdded(popOrder)
    /\ \A i, j \in DOMAIN popOrder :
        (i < j /\ msgs[popOrder[i]].producer = msgs[popOrder[j]].producer)
            => popOrder[i] < popOrder[j]

\* Two producers were inside Dispatch at the same time and the one that
\* called later pushed first; one of them then dispatched again; the three
\* messages were popped in push order.
C9_Witness ==
    /\ Len(popOrder) >= 3
    /\ popOrder[1] > popOrder[2]
    /\ msgs[popOrder[1]].producer # msgs[popOrder[2]].producer
    /\ msgs[popOrder[3]].producer = msgs[popOrder[2]].producer

\* C10: at shutdown every message still in the queue is deleted without
\* Execute being invoked on it, the detached thread pops nothing and adds
\* no job once the destructor has been entered, and when the destructor
\* has returned no message is left undeleted.
C10_Shutdown ==
    /\ \A id \in Range(atShutdown) :
        /\ obs[id].execs = <<>>
        /\ id \notin Range(popOrder)
    /\ phase = "destroyed" => \A id \in Ids : obs[id].deleted = 1

\* ------------------------------------------------ claims on the startup

\* Places in startup of the statements with this op (and module).
Stmts(op) == {i \in DOMAIN startup : startup[i].op = op}
SyncCalls(module) ==
    {i \in Stmts("StartSynchronization") : startup[i].module = module}

\* The values assigned to the lookup's m_syncType, in order.
IsMark(stmt) == stmt.op = "m_syncType"
Marks == SelectSeq(startup, IsMark)

\* The log lines of the constructor with this level and text.
Logged(level, text) ==
    {i \in Stmts("LOG_GENERAL") :
        startup[i].level = level /\ startup[i].text = text}
Warnings == {i \in Stmts("LOG_GENERAL") : startup[i].level = "WARNING"}

NoSynchronization ==
    /\ Stmts("StartSynchronization") = {}
    /\ Marks = <<>>
    /\ m_syncType = NO_SYNC

\* C11: an ordinary node constructed with NEW_SYNC and toRetrieveHistory
\* set never calls StartSynchronization on any module, never assigns the
\* lookup's m_syncType, and has logged a warning when the constructor
\* returns.
C11_NewSyncWithHistory ==
    (~IS_LOOKUP_NODE /\ syncType = NEW_SYNC /\ toRetrieveHistory) =>
        /\ NoSynchronization
        /\ Constructed =>
            Logged("WARNING",
                   "Error: Sync for new node shouldn't retrieve history")
                # {}

\* The constructor of such a node has returned.
C11_Witness ==
    /\ ~IS_LOOKUP_NODE
    /\ syncType = NEW_SYNC
    /\ toRetrieveHistory
    /\ Constructed
    /\ Warnings # {}

\* C12: a lookup node constructed with LOOKUP_SYNC assigns LOOKUP_SYNC to
\* the lookup's m_syncType and calls m_lookup.StartSynchronization exactly
\* once, and calls StartSynchronization neither on m_n nor on m_ds.
C12_LookupSync ==
    (IS_LOOKUP_NODE /\ syncType = LOOKUP_SYNC) =>
        /\ Cardinality(SyncCalls("m_lookup")) <= 1
        /\ SyncCalls("m_n") = {}
        /\ SyncCalls("m_ds") = {}
        /\ Constructed =>
            /\ Cardinality(SyncCalls("m_lookup")) = 1
            /\ Len(Marks) = 1
            /\ Marks[1].val = LOOKUP_SYNC
            /\ m_syncType = LOOKUP_SYNC

\* The constructor of a lookup node with LOOKUP_SYNC has returned, the
\* synchronization of m_lookup started.
C12_Witness ==
    /\ IS_LOOKUP_NODE
    /\ syncType = LOOKUP_SYNC
    /\ Constructed
    /\ SyncCalls("m_lookup") # {}

\* The role and the mode do not go together, or the mode is none of the
\* enumeration.
Mismatch ==
    \/ ~IS_LOOKUP_NODE /\ syncType = LOOKUP_SYNC
    \/ IS_LOOKUP_NODE /\ syncType \in {NEW_SYNC, NORMAL_SYNC, DS_SYNC}
    \/ syncType \notin {NO_SYNC, NEW_SYNC, NORMAL_SYNC, DS_SYNC, LOOKUP_SYNC}

\* C13: on a mismatch of role and mode, and on a mode outside the
\* enumeration, the constructor calls no StartSynchronization and leaves
\* the lookup's m_syncType alone; when it returns it has logged "Invalid
\* Sync Type" and the node runs: the detached thread is launched and pops
\* whatever the queue holds, and a message with a known tag that was
\* processed was handed to the module of its tag.
C13_InvalidSyncType ==
    Mismatch =>
        /\ NoSynchronization
        /\ Constructed =>
            /\ Logged("WARNING", "Invalid Sync Type") # {}
            /\ Launched
            /\ m_msgQueue # <<>> => ENABLED funcCheckMsgQueue
            /\ \A id \in Ids :
                (Known(id) /\ Processed(id)) =>
                    /\ Len(obs[id].execs) = 1
                    /\ obs[id].execs[1].module = handler(TagOf(id))

\* An ordinary node constructed with LOOKUP_SYNC has executed a message
\* dispatched to it.
C13_Witness ==
    /\ ~IS_LOOKUP_NODE
    /\ syncType = LOOKUP_SYNC
    /\ Logged("WARNING", "Invalid Sync Type") # {}
    /\ \E id \in Ids : Known(id) /\ Executed(id) /\ obs[id].deleted = 1

\* The synchronization of module alone has been started, once, after
\* mode was assigned to the lookup's m_syncType and to nothing else.
StartedOnly(module, mode) ==
    /\ Cardinality(SyncCalls(module)) = 1
    /\ Stmts("StartSynchronization") = SyncCalls(module)
    /\ Len(Marks) = 1
    /\ Marks[1].val = mode
    /\ m_syncType = mode

\* m_runFromLate was set to true before every StartSynchronization.
RunFromLateAtCall ==
    \A i \in Stmts("StartSynchronization") :
        \E j \in Stmts("m_runFromLate") :
            /\ j < i
            /\ startup[j].val = 1
            /\ \A k \in Stmts("m_runFromLate") : k < i => startup[k].val = 1

\* C14: on an ordinary node the mode selects the one module whose
\* synchronization is started, and the lookup's m_syncType is assigned
\* exactly that mode: NEW_SYNC without toRetrieveHistory and NORMAL_SYNC
\* start m_n once, with m_runFromLate set, and never m_ds; DS_SYNC starts
\* m_ds once and never m_n.
C14_ModeSelectsModule ==
    ~IS_LOOKUP_NODE =>
        /\ (syncType = NEW_SYNC /\ ~toRetrieveHistory)
                \/ syncType = NORMAL_SYNC
            => /\ SyncCalls("m_ds") = {}
               /\ Cardinality(SyncCalls("m_n")) <= 1
               /\ RunFromLateAtCall
               /\ Constructed =>
                    StartedOnly("m_n", syncType) /\ m_runFromLate
        /\ syncType = DS_SYNC
            => /\ SyncCalls("m_n") = {}
               /\ Cardinality(SyncCalls("m_ds")) <= 1
               /\ Constructed => StartedOnly("m_ds", DS_SYNC)

\* The constructor of an ordinary node with DS_SYNC has returned, the
\* synchronization of m_ds started.
C14_Witness ==
    /\ ~IS_LOOKUP_NODE
    /\ syncType = DS_SYNC
    /\ Constructed
    /\ SyncCalls("m_ds") # {}

\* C15: with NO_SYNC, on either build, Whitelist::Init is called exactly
\* once, StartSynchronization is called on no module, and neither the
\* lookup's m_syncType nor the node's m_runFromLate is assigned.
C15_NoSync ==
    syncType = NO_SYNC =>
        /\ NoSynchronization
        /\ Stmts("m_runFromLate") = {}
        /\ m_runFromLate = FALSE
        /\ Cardinality(Stmts("Whitelist::Init")) <= 1
        /\ Constructed => Cardinality(Stmts("Whitelist::Init")) = 1

\* The constructor of a lookup node with NO_SYNC has returned, the
\* whitelist initialised.
C15_Witness ==
    /\ IS_LOOKUP_NODE
    /\ syncType = NO_SYNC
    /\ Constructed
    /\ Stmts("Whitelist::Init") # {}

\* C19: whatever the build, syncType and toRetrieveHistory, the
\* constructor calls StartSynchronization at most once over m_n, m_ds and
\* m_lookup together, and when it does the lookup's m_syncType already
\* holds syncType: it was assigned before the call and nothing else was.
C19_MarkedBeforeStart ==
    /\ Cardinality(Stmts("StartSynchronization")) <= 1
    /\ \A i \in Stmts("StartSynchronization") :
        /\ startup[i].module \in {"m_n", "m_ds", "m_lookup"}
        /\ \E j \in Stmts("m_syncType") : j < i
        /\ \A j \in Stmts("m_syncType") : j < i => startup[j].val = syncType

\* The constructor of an ordinary node with NORMAL_SYNC has returned, the
\* synchronization of m_n started.
C19_Witness ==
    /\ ~IS_LOOKUP_NODE
    /\ syncType = NORMAL_SYNC
    /\ Constructed
    /\ SyncCalls("m_n") # {}
    /\ m_syncType = NORMAL_SYNC

\* -------------------------------------------- claims on the worker pool

\* A step of the detached thread: it popped a message.
Popped == popOrder' # popOrder

\* C16: the detached thread never runs ProcessMessage itself.  A message
\* on which ProcessMessage was called had been popped and its job taken
\* from the pool by a worker, every Execute in progress is inside a
\* running job, and the step that pops a message only adds the job: it
\* leaves the record of the message, the running jobs and the calls in
\* progress alone.  While jobs are inside Execute the detached thread is
\* not held up: whenever the queue holds a message it can pop it.
C16_Offloaded ==
    /\ \A id \in Ids :
        Processed(id) =>
            /\ id \in Range(popOrder)
            /\ Count(m_queuePool, id) = 0
            /\ Count(m_msgQueue, id) = 0
    /\ \A id \in Range(executing) :
            [msg |-> id, pc |-> "Execute"] \in workers
    /\ m_msgQueue # <<>> => ENABLED funcCheckMsgQueue

C16_PopOnlyAddsJob ==
    Popped =>
        /\ obs' = obs
        /\ workers' = workers
        /\ executing' = executing
        /\ m_queuePool' = Append(m_queuePool, Head(m_msgQueue))

C16_IntakeOffloads == [](C16_Offloaded) /\ [][C16_PopOnlyAddsJob]_vars

\* Every pool thread is inside Execute, and the detached thread has
\* added a further job all the same.
C16_Witness ==
    /\ Len(executing) = NumWorkers
    /\ m_queuePool # <<>>
    /\ \A id \in Range(m_queuePool) : ~Processed(id)

\* C17: for a type tag below the handler count RetrieveBroadcastList
\* asks one module, the one ProcessMessage hands messages with that tag
\* to, and returns what that module's GetBroadcastList(ins_type, from)
\* yields, logging nothing; the call invokes no Execute and changes
\* neither the queue nor any message.
C17_Returned ==
    (bcast # <<>> /\ bcast.msg_type < msg_handlers_count) =>
        /\ bcast.asked = <<handler(bcast.msg_type)>>
        /\ bcast.ret = GetBroadcastList(handler(bcast.msg_type),
                                        bcast.ins_type, bcast.from)
        /\ bcast.log = <<>>
        /\ \A id \in Ids :
            (Known(id) /\ Processed(id) /\ TagOf(id) = bcast.msg_type) =>
                obs[id].execs[1].module = bcast.asked[1]

C17_NoOtherEffect ==
    bcast' # bcast =>
        UNCHANGED <<msgs, prod, m_msgQueue, m_queuePool, workers, obs,
                    executing, pushOrder, popOrder>>

C17_BroadcastList == [](C17_Returned) /\ [][C17_NoOtherEffect]_vars

\* The broadcast list for tag 2 was asked of the node module, to which a
\* message with tag 2 was handed as well.
C17_Witness ==
    /\ bcast # <<>>
    /\ bcast.msg_type = 2
    /\ bcast.asked = <<"m_n">>
    /\ bcast.ret # <<>>
    /\ \E id \in Ids :
        /\ Known(id)
        /\ TagOf(id) = 2
        /\ Len(obs[id].execs) = 1
        /\ obs[id].execs[1].module = "m_n"

\* C18: nothing orders the processing of popped messages.  A job that a
\* pool thread has taken can call ProcessMessage whatever the other jobs
\* are doing, and an idle pool thread can take the next job while other
\* jobs are inside Execute; so a message dispatched later can reach
\* Execute first, and two Execute calls can be in progress together.
C18_NoOrdering ==
    /\ \A job \in workers :
        job.pc = "job" => ENABLED ProcessMessage(job.msg)
    /\ (m_queuePool # <<>> /\ Cardinality(workers) < NumWorkers) =>
            ENABLED WorkerTakeJob

\* Two messages of one producer with different tags are both inside
\* Execute, and the one dispatched later got there first.
C18_Witness ==
    \E a, b \in Ids :
        /\ a < b
        /\ msgs[a].producer = msgs[b].producer
        /\ TagOf(a) # TagOf(b)
        /\ executing = <<b, a>>

\* ------------------------------------------------- claims on the queue

\* A push succeeded in this step.
Pushed == pushOrder' # pushOrder

\* C20: the queue never holds more than MSGQUEUE_SIZE messages, however
\* many producers are inside Dispatch; at capacity no push succeeds and
\* no step of a producer changes the queue (it can only get shorter, by
\* a pop).
C20_Bounded == Len(m_msgQueue) <= MSGQUEUE_SIZE

C20_PushAtCapacity ==
    Len(m_msgQueue) = MSGQUEUE_SIZE =>
        /\ ~Pushed
        /\ \A id \in Ids : obs'[id].enq = obs[id].enq
        /\ m_msgQueue' = m_msgQueue \/ m_msgQueue' = Tail(m_msgQueue)
        /\ prod' # prod => m_msgQueue' = m_msgQueue

=============================================================================
